---- MODULE Spec2Model ----
(***************************************************************************)
(* A model of csim, a simulator of a set-associative LRU data cache        *)
(* (src/src/cache.rs), and of the driver that constructs it and feeds it   *)
(* the access stream (src/src/main.rs).                                    *)
(*                                                                         *)
(* A 64-bit word is modelled exactly, as the set of the positions of its   *)
(* one bits (bit 0 is the least significant), so that shifts keep their    *)
(* width.  u8 arithmetic and shift amounts carry an overflow flag: with    *)
(* overflow checks on (a debug build) an overflow panics, with overflow    *)
(* checks off (a release build) the value wraps and a shift amount is      *)
(* masked to the width.  Both builds are behaviours of the model.          *)
(***************************************************************************)
EXTENDS Integers, Sequences, FiniteSets, TLC

VARIABLES
    build,      \* "debug" (overflow checks on) or "release" (off)
    argv,       \* the -s, -E and -b of the command line, as main parses them
    status,     \* position of main: "start", "running", "panicked", "done"
    cache,      \* the Cache object of main (NoCache before construction)
    now,        \* the last reading of the monotonic clock, Instant::now()
    processed,  \* the addresses of the accesses operate_cache has completed
    used,       \* history: per line, the number of the last access that filled
                \*   or hit it (0: none yet)
    input,      \* the trace file main reads: its lines, each a string of characters
    parsed,     \* what valgrind::parse returned to main (NotParsed before)
    probe       \* a direct call of Cache::place_block, as the unit test makes

vars == <<build, argv, status, cache, now, processed, used, input, parsed, probe>>

(***************************************************************************)
(* Bounds of the model and the input sets.                                 *)
(***************************************************************************)
MaxAccesses == 4
\* the accesses of a trace in the specification of the longer traces
MaxLongTrace == 5

WordBits == 64
U8Limit == 256

Builds == {"debug", "release"}

\* -s, -b and -E as main parses them (u8); a few values of each kind.
SetBitsValues == {0, 1, 8, 40}
BlockBitsValues == {0, 1, 30, 63}
NumLinesValues == {0, 1, 2}

\* Addresses of the trace.  With set_bits = block_bits = 1, bit 1 is the set
\* index and bits 2..63 are the tag: three tags of set 0 and one of set 1.
Addresses == { {}, {2}, {3}, {1, 63} }

\* Addresses handed to place_block directly.
ProbeAddresses == { {}, {0}, {1, 2}, {63}, {0, 5, 12, 40, 63}, 0 .. 63 }
ProbeBitsValues == {0, 1, 12, 16, 32, 63, 64}

Geometries == [ set_bits : SetBitsValues, num_lines : NumLinesValues,
                block_bits : BlockBitsValues ]

NoArgs == [none |-> TRUE]
NoCache == [none |-> TRUE]
NoProbe == [called |-> FALSE]
NoInput == << >>
NotParsed == [none |-> TRUE]

\* The clock during Cache::new, which reads it n times: it stands still, or it
\* advances before every reading.
ConstructTicks(n) == { {}, 1 .. n }

(***************************************************************************)
(* Machine arithmetic.                                                     *)
(***************************************************************************)
RECURSIVE Pow2(_)
Pow2(n) == IF n = 0 THEN 1 ELSE 2 * Pow2(n - 1)

\* u8 + u8
U8Add(a, b) == [val |-> (a + b) % U8Limit, ovf |-> a + b >= U8Limit]

\* u8 - u8
U8Sub(a, b) == [val |-> (a - b) % U8Limit, ovf |-> a < b]

\* 2_u8.pow(n): 2^n wraps to 0 from n = 8 on
U8Pow2(n) == [val |-> IF n < 8 THEN Pow2(n) ELSE 0, ovf |-> n >= 8]

\* u64 << k and u64 >> k; the amount is masked to the width when it overflows
Shl(w, k) == { i + (k % WordBits) : i \in w } \cap (0 .. WordBits - 1)
Shr(w, k) == { i - (k % WordBits) : i \in { j \in w : j >= k % WordBits } }
ShiftOvf(k) == k >= WordBits

\* The value of a word, for words below 2^8 (larger ones index no slice here).
RECURSIVE WordValue(_)
WordValue(w) ==
    IF w = {} THEN 0
    ELSE LET i == CHOOSE j \in w : TRUE IN Pow2(i) + WordValue(w \ {i})

\* slice[w as usize] is in bounds
InBounds(w, len) == (\A i \in w : i < 8) /\ WordValue(w) < len

(***************************************************************************)
(* Cache::place_block                                                      *)
(***************************************************************************)
place_block(address, set_bits, block_bits) ==
    LET sb  == U8Add(set_bits, block_bits)
        tb  == U8Sub(64, sb.val)
        tag_bits == tb.val
        tpb == U8Add(tag_bits, block_bits)
        tps == U8Add(tag_bits, set_bits)
    IN  [ tag   |-> Shr(address, sb.val),
          set   |-> Shr(Shl(address, tag_bits), tpb.val),
          block |-> Shr(Shl(address, tps.val), tps.val),
          overflow |->
              \/ sb.ovf \/ tb.ovf \/ tpb.ovf \/ tps.ovf
              \/ ShiftOvf(sb.val) \/ ShiftOvf(tag_bits)
              \/ ShiftOvf(tpb.val) \/ ShiftOvf(tps.val) ]

(***************************************************************************)
(* Cache::new.  Every line reads Instant::now() as it is built, set by set *)
(* and line by line; reading number k returns t0 plus the number of ticks  *)
(* of the clock up to k.  The block bytes of a line are never read and are *)
(* left out; total_bytes matters only through the overflow of its pow.     *)
(***************************************************************************)
Reading(t0, ticks, k) == t0 + Cardinality({ j \in ticks : j <= k })

CacheNew(set_bits, num_lines, block_bits, t0, ticks) ==
    LET total_sets  == U8Pow2(set_bits)
        total_bytes == U8Pow2(block_bits)
        sb == U8Add(set_bits, block_bits)
        tb == U8Sub(64, sb.val)
        Line(s, l) == [ valid |-> FALSE, tag |-> {},
                        access_time |-> Reading(t0, ticks, (s - 1) * num_lines + l) ]
    IN  [ cache |->
              [ stats      |-> [hit |-> 0, miss |-> 0, eviction |-> 0],
                sets       |-> [ s \in 1 .. total_sets.val |->
                                   [ l \in 1 .. num_lines |-> Line(s, l) ] ],
                set_bits   |-> set_bits,
                block_bits |-> block_bits,
                tag_bits   |-> tb.val,
                num_lines  |-> num_lines ],
          overflow |-> total_sets.ovf \/ total_bytes.ovf \/ sb.ovf \/ tb.ovf ]

(***************************************************************************)
(* The three steps of one access.  Each returns the cache it leaves, its   *)
(* return value, the line it wrote (0: none), whether it panicked (an      *)
(* index out of bounds) and whether it read the clock; t is what           *)
(* Instant::now() returns if it is read.  Set s of the code is sets[s + 1] *)
(* here, line l is lines[l + 1].                                           *)
(***************************************************************************)
SetOf(c, parts) == c.sets[WordValue(parts.set) + 1]

HitPanic(c) == [cache |-> c, ret |-> FALSE, line |-> 0, panic |-> TRUE, read |-> FALSE]
NoHit(c) == [cache |-> c, ret |-> FALSE, line |-> 0, panic |-> FALSE, read |-> FALSE]

\* attempt_cache_hit scanning on after a line that does not match, and
\* counting a miss for each such line.
attempt_cache_hit_miss_per_line(c, parts, t) ==
    IF ~InBounds(parts.set, Len(c.sets))
    THEN HitPanic(c)
    ELSE
    LET s == WordValue(parts.set) + 1
        lines == c.sets[s]
        match == { l \in 1 .. Len(lines) : lines[l].valid /\ lines[l].tag = parts.tag }
    IN  IF match # {}
        THEN LET l == CHOOSE m \in match : \A n \in match : m <= n
             IN  [ cache |-> [c EXCEPT !.stats.hit = @ + 1,
                                       !.stats.miss = @ + (l - 1),
                                       !.sets[s][l].access_time = t],
                   ret |-> TRUE, line |-> l, panic |-> FALSE, read |-> TRUE ]
        ELSE NoHit([c EXCEPT !.stats.miss = @ + Len(lines)])

\* attempt_cache_hit leaving the miss uncounted.
attempt_cache_hit_uncounted_miss(c, parts, t) ==
    IF ~InBounds(parts.set, Len(c.sets))
    THEN HitPanic(c)
    ELSE
    LET s == WordValue(parts.set) + 1
        lines == c.sets[s]
    IN  IF Len(lines) = 0
        THEN NoHit(c)
        ELSE IF lines[1].valid /\ lines[1].tag = parts.tag
        THEN [ cache |-> [c EXCEPT !.stats.hit = @ + 1,
                                   !.sets[s][1].access_time = t],
               ret |-> TRUE, line |-> 1, panic |-> FALSE, read |-> TRUE ]
        ELSE NoHit(c)

attempt_cache_hit(c, parts, t) ==
    IF ~InBounds(parts.set, Len(c.sets))
    THEN HitPanic(c)
    ELSE
    LET s == WordValue(parts.set) + 1
        lines == c.sets[s]
    IN  IF Len(lines) = 0
        THEN NoHit(c)
        ELSE IF lines[1].valid /\ lines[1].tag = parts.tag
        THEN [ cache |-> [c EXCEPT !.stats.hit = @ + 1,
                                   !.sets[s][1].access_time = t],
               ret |-> TRUE, line |-> 1, panic |-> FALSE, read |-> TRUE ]
        ELSE NoHit([c EXCEPT !.stats.miss = @ + 1])

\* attempt_cache_store filling the line and still reporting no line stored.
attempt_cache_store_no_return(c, parts) ==
    LET s == WordValue(parts.set) + 1
        lines == c.sets[s]
        free == { l \in 1 .. Len(lines) : ~lines[l].valid }
    IN  IF free = {}
        THEN [cache |-> c, ret |-> FALSE, line |-> 0]
        ELSE LET l == CHOOSE m \in free : \A n \in free : m <= n
             IN  [ cache |-> [c EXCEPT !.sets[s][l].valid = TRUE,
                                       !.sets[s][l].tag = parts.tag],
                   ret |-> FALSE, line |-> 0 ]

\* attempt_cache_store going on after the first invalid line: it fills every
\* invalid line of the set.
attempt_cache_store_fills_all(c, parts) ==
    LET s == WordValue(parts.set) + 1
        lines == c.sets[s]
        free == { l \in 1 .. Len(lines) : ~lines[l].valid }
    IN  IF free = {}
        THEN [cache |-> c, ret |-> FALSE, line |-> 0]
        ELSE [ cache |-> [c EXCEPT !.sets[s] =
                            [ l \in 1 .. Len(lines) |->
                                IF l \in free
                                THEN [lines[l] EXCEPT !.valid = TRUE, !.tag = parts.tag]
                                ELSE lines[l] ]],
               ret |-> TRUE,
               line |-> CHOOSE m \in free : \A n \in free : m <= n ]

attempt_cache_store(c, parts) ==
    LET s == WordValue(parts.set) + 1
        lines == c.sets[s]
        free == { l \in 1 .. Len(lines) : ~lines[l].valid }
    IN  IF free = {}
        THEN [cache |-> c, ret |-> FALSE, line |-> 0]
        ELSE LET l == CHOOSE m \in free : \A n \in free : m <= n
             IN  [ cache |-> [c EXCEPT !.sets[s][l].valid = TRUE,
                                       !.sets[s][l].tag = parts.tag],
                   ret |-> TRUE, line |-> l ]

\* The scan of evict_cache_block from position pos (line pos + 1 here) on.
RECURSIVE EvictScan(_, _, _, _)
EvictScan(lines, pos, initial_time, id) ==
    IF pos >= Len(lines) THEN id
    ELSE IF lines[pos + 1].access_time < initial_time
         THEN EvictScan(lines, pos + 1, lines[pos + 1].access_time, pos)
         ELSE EvictScan(lines, pos + 1, initial_time, id)

\* evict_cache_block leaving the tag of the line it takes as it was.
evict_cache_block_keeps_tag(c, parts, t) ==
    LET s == WordValue(parts.set) + 1
        lines == c.sets[s]
    IN  IF Len(lines) = 0
        THEN [cache |-> c, line |-> 0, panic |-> TRUE]
        ELSE LET id == EvictScan(lines, 1, lines[1].access_time, 0)
             IN  [ cache |-> [c EXCEPT !.sets[s][id + 1].valid = TRUE,
                                       !.sets[s][id + 1].access_time = t,
                                       !.stats.eviction = @ + 1],
                   line |-> id + 1, panic |-> FALSE ]

evict_cache_block(c, parts, t) ==
    LET s == WordValue(parts.set) + 1
        lines == c.sets[s]
    IN  IF Len(lines) = 0
        THEN [cache |-> c, line |-> 0, panic |-> TRUE]
        ELSE LET id == EvictScan(lines, 1, lines[1].access_time, 0)
             IN  [ cache |-> [c EXCEPT !.sets[s][id + 1].valid = TRUE,
                                       !.sets[s][id + 1].tag = parts.tag,
                                       !.sets[s][id + 1].access_time = t,
                                       !.stats.eviction = @ + 1],
                   line |-> id + 1, panic |-> FALSE ]

decompose(c, address) == place_block(address, c.set_bits, c.block_bits)

(***************************************************************************)
(* One iteration of the loop of operate_cache.  checked: overflow checks   *)
(* are on.  kind is what resolved the access, line the line it wrote.      *)
(***************************************************************************)
operate_cache(c, address, t, checked) ==
    LET parts == decompose(c, address)
        Panic == [ cache |-> c, panic |-> TRUE, kind |-> "panic", line |-> 0,
                   read |-> FALSE ]
    IN  IF checked /\ parts.overflow THEN Panic
        ELSE
        LET h == attempt_cache_hit(c, parts, t)
        IN  IF h.panic THEN Panic
            ELSE IF h.ret
            THEN [ cache |-> h.cache, panic |-> FALSE, kind |-> "hit",
                   line |-> h.line, read |-> TRUE ]
            ELSE
            LET st == attempt_cache_store(h.cache, parts)
            IN  IF st.ret
                THEN [ cache |-> st.cache, panic |-> FALSE, kind |-> "store",
                       line |-> st.line, read |-> FALSE ]
                ELSE
                LET e == evict_cache_block(st.cache, parts, t)
                IN  IF e.panic THEN Panic
                    ELSE [ cache |-> e.cache, panic |-> FALSE, kind |-> "evict",
                           line |-> e.line, read |-> TRUE ]

(***************************************************************************)
(* valgrind::parse.  A line is the sequence of its characters.             *)
(***************************************************************************)
Whitespace == {" ", "\t"}

\* str::trim
RECURSIVE TrimStart(_)
TrimStart(str) ==
    IF str # << >> /\ Head(str) \in Whitespace THEN TrimStart(Tail(str)) ELSE str

RECURSIVE TrimEnd(_)
TrimEnd(str) ==
    IF str # << >> /\ str[Len(str)] \in Whitespace
    THEN TrimEnd(SubSeq(str, 1, Len(str) - 1))
    ELSE str

Trim(str) == TrimEnd(TrimStart(str))

\* str::split(sep): the pieces between the separators, the empty ones included
RECURSIVE SplitFrom(_, _, _, _)
SplitFrom(str, sep, i, piece) ==
    IF i > Len(str) THEN << piece >>
    ELSE IF str[i] = sep
         THEN << piece >> \o SplitFrom(str, sep, i + 1, << >>)
         ELSE SplitFrom(str, sep, i + 1, Append(piece, str[i]))

Split(str, sep) == SplitFrom(str, sep, 1, << >>)

\* line.trim().split(" ").filter(|el| !el.is_empty())
Fields(line) == SelectSeq(Split(Trim(line), " "), LAMBDA el : el # << >>)

Digits == << "0", "1", "2", "3", "4", "5", "6", "7", "8", "9",
             "a", "b", "c", "d", "e", "f" >>
UpperDigits == << "0", "1", "2", "3", "4", "5", "6", "7", "8", "9",
                  "A", "B", "C", "D", "E", "F" >>

\* char::to_digit(radix): the value of the digit, -1 if it is none
ToDigit(ch, radix) ==
    LET found == { v \in 1 .. radix : Digits[v] = ch \/ UpperDigits[v] = ch }
    IN  IF found = {} THEN -1 ELSE (CHOOSE v \in found : TRUE) - 1

\* from_str_radix strips one leading "+"; what is left must be digits
Unsigned(str) == IF str # << >> /\ Head(str) = "+" THEN Tail(str) ELSE str

AllDigits(str, radix) ==
    str # << >> /\ \A i \in 1 .. Len(str) : ToDigit(str[i], radix) >= 0

\* u64::from_str_radix(str, 16): the word, bit by bit; more than 64
\* significant bits overflow
HexBits(digits) ==
    UNION { { 4 * (Len(digits) - i) + b :
                b \in { c \in 0 .. 3 : (ToDigit(digits[i], 16) \div Pow2(c)) % 2 = 1 } } :
            i \in 1 .. Len(digits) }

U64FromHex(str) ==
    LET digits == Unsigned(str)
    IN  IF ~AllDigits(digits, 16) THEN [ok |-> FALSE]
        ELSE IF \E b \in HexBits(digits) : b >= WordBits THEN [ok |-> FALSE]
        ELSE [ok |-> TRUE, val |-> HexBits(digits)]

\* u8::from_str_radix(str, 10)
RECURSIVE DecimalValue(_, _)
DecimalValue(digits, acc) ==
    IF digits = << >> THEN acc
    ELSE IF acc >= U8Limit THEN acc
    ELSE DecimalValue(Tail(digits), 10 * acc + ToDigit(Head(digits), 10))

U8FromDecimal(str) ==
    LET digits == Unsigned(str)
    IN  IF ~AllDigits(digits, 10) THEN [ok |-> FALSE]
        ELSE IF DecimalValue(digits, 0) >= U8Limit THEN [ok |-> FALSE]
        ELSE [ok |-> TRUE, val |-> DecimalValue(digits, 0)]

parse_address_size(item) ==
    LET operands == Split(item, ",")
    IN  IF Len(operands) # 2 THEN [ok |-> FALSE]
        ELSE LET address == U64FromHex(operands[1])
                 size == U8FromDecimal(operands[2])
             IN  IF ~address.ok \/ ~size.ok THEN [ok |-> FALSE]
                 ELSE [ok |-> TRUE, address |-> address.val, size |-> size.val]

\* parse_operation taking an unknown code for an instruction fetch.
parse_operation_ignores_unknown(op) ==
    IF op = << "L" >> THEN [ok |-> TRUE, operation |-> "Load"]
    ELSE IF op = << "S" >> THEN [ok |-> TRUE, operation |-> "Store"]
    ELSE IF op = << "M" >> THEN [ok |-> TRUE, operation |-> "Modify"]
    ELSE [ok |-> TRUE, operation |-> "Instruction"]

parse_operation(op) ==
    IF op = << "L" >> THEN [ok |-> TRUE, operation |-> "Load"]
    ELSE IF op = << "S" >> THEN [ok |-> TRUE, operation |-> "Store"]
    ELSE IF op = << "M" >> THEN [ok |-> TRUE, operation |-> "Modify"]
    ELSE IF op = << "I" >> THEN [ok |-> TRUE, operation |-> "Instruction"]
    ELSE [ok |-> FALSE]

MemoryAccess(operation, address, size) ==
    [operation |-> operation, address |-> address, size |-> size]

\* The body of the loop of parse pushing the store of a modify first.
ParseLine_store_first(line) ==
    LET trace == Fields(line)
    IN  IF Len(trace) # 2 THEN [ok |-> FALSE]
        ELSE
        LET operation == parse_operation(trace[1])
            operands == parse_address_size(trace[2])
        IN  IF ~operation.ok \/ ~operands.ok THEN [ok |-> FALSE]
            ELSE IF operation.operation = "Modify"
            THEN [ ok |-> TRUE,
                   pushed |-> << MemoryAccess("Store", operands.address, operands.size),
                                 MemoryAccess("Load", operands.address, operands.size) >> ]
            ELSE IF operation.operation = "Instruction"
            THEN [ok |-> TRUE, pushed |-> << >>]
            ELSE [ ok |-> TRUE,
                   pushed |-> << MemoryAccess(operation.operation, operands.address,
                                              operands.size) >> ]

\* The body of the loop of parse, for one line: the accesses it pushes, or
\* the error it returns.
ParseLine(line) ==
    LET trace == Fields(line)
    IN  IF Len(trace) # 2 THEN [ok |-> FALSE]
        ELSE
        LET operation == parse_operation(trace[1])
            operands == parse_address_size(trace[2])
        IN  IF ~operation.ok \/ ~operands.ok THEN [ok |-> FALSE]
            ELSE IF operation.operation = "Modify"
            THEN [ ok |-> TRUE,
                   pushed |-> << MemoryAccess("Load", operands.address, operands.size),
                                 MemoryAccess("Store", operands.address, operands.size) >> ]
            ELSE IF operation.operation = "Instruction"
            THEN [ok |-> TRUE, pushed |-> << >>]
            ELSE [ ok |-> TRUE,
                   pushed |-> << MemoryAccess(operation.operation, operands.address,
                                              operands.size) >> ]

\* The loop of parse from line i on; an error returns at once and drops traces.
RECURSIVE ParseFrom(_, _, _)
ParseFrom(lines, i, traces) ==
    IF i > Len(lines) THEN [ok |-> TRUE, traces |-> traces]
    ELSE LET r == ParseLine(lines[i])
         IN  IF ~r.ok THEN [ok |-> FALSE]
             ELSE ParseFrom(lines, i + 1, traces \o r.pushed)

parse(trace_input) == ParseFrom(trace_input, 1, << >>)

(***************************************************************************)
(* main: construct the cache, run the trace through it, print the stats.   *)
(***************************************************************************)
Init ==
    /\ build \in Builds
    /\ argv \in Geometries
    /\ status = "start"
    /\ cache = NoCache
    /\ now = 0
    /\ processed = << >>
    /\ used = << >>
    /\ input = NoInput
    /\ parsed = NotParsed
    /\ probe = NoProbe

\* cache::Cache::new(set_bits, lines, block_bits)
Construct(ticks) ==
    /\ status = "start"
    /\ LET r == CacheNew(argv.set_bits, argv.num_lines, argv.block_bits, now, ticks)
       IN  IF build = "debug" /\ r.overflow
           THEN /\ status' = "panicked"
                /\ UNCHANGED <<cache, now, used>>
           ELSE /\ status' = "running"
                /\ cache' = r.cache
                /\ now' = now + Cardinality(ticks)
                /\ used' = [ s \in DOMAIN r.cache.sets |->
                               [ l \in DOMAIN r.cache.sets[s] |-> 0 ] ]
    /\ UNCHANGED <<build, argv, processed, input, parsed, probe>>

\* one iteration of the loop of operate_cache, on the next access of a trace
\* of at most max accesses
AccessWithin(address, max) ==
    /\ status = "running"
    /\ Len(processed) < max
    /\ \E t \in {now, now + 1} :
          LET r == operate_cache(cache, address, t, build = "debug")
          IN  IF r.panic
              THEN /\ status' = "panicked"
                   /\ UNCHANGED <<cache, now, processed, used>>
              ELSE /\ cache' = r.cache
                   /\ now' = IF r.read THEN t ELSE now
                   /\ processed' = Append(processed, address)
                   /\ used' = [used EXCEPT
                                 ![WordValue(decompose(cache, address).set) + 1][r.line] =
                                     Len(processed) + 1]
                   /\ UNCHANGED status
    /\ UNCHANGED <<build, argv, input, parsed, probe>>

Access(address) == AccessWithin(address, MaxAccesses)

\* the trace is exhausted: operate_cache returns and main prints cache.stats
Finish ==
    /\ status = "running"
    /\ status' = "done"
    /\ UNCHANGED <<build, argv, cache, now, processed, used, input, parsed, probe>>

Next ==
    \/ \E ticks \in ConstructTicks(U8Pow2(argv.set_bits).val * argv.num_lines) :
          Construct(ticks)
    \/ \E a \in Addresses : Access(a)
    \/ Finish

Spec == Init /\ [][Next]_vars

\* main on the longer traces
LongAccess(address) == AccessWithin(address, MaxLongTrace)

NextLong ==
    \/ \E ticks \in ConstructTicks(U8Pow2(argv.set_bits).val * argv.num_lines) :
          Construct(ticks)
    \/ \E a \in Addresses : LongAccess(a)
    \/ Finish

SpecLong == Init /\ [][NextLong]_vars

(***************************************************************************)
(* main from the trace file on: parse the file, and only if that succeeded *)
(* construct the cache and run the parsed accesses through it.             *)
(***************************************************************************)
MaxLines == 3

\* Lines of a trace file, in the format of valgrind's lackey, and lines that
\* are not: no field, a missing size, an unknown code, a letter that is no
\* hexadecimal digit, a size above 255, a third field.
LoadLine == << " ", "L", " ", "1", "0", ",", "1" >>
ModifyLine == << " ", "M", " ", "1", "2", ",", "1" >>
StoreLine == << " ", "S", " ", "1", "8", ",", "4" >>
InstructionLine == << "I", " ", " ", "1", "0", ",", "8" >>
MixedCaseLine == << "L", " ", "7", "f", "F", ",", "2", "5", "5" >>
PlusSignLine == << " ", "S", " ", "+", "c", ",", "8" >>
BlankLine == << >>
NoSizeLine == << "L", " ", "1", "0" >>
UnknownCodeLine == << "X", " ", "1", "0", ",", "1" >>
BadAddressLine == << "L", " ", "1", "g", ",", "1" >>
BadSizeLine == << "S", " ", "1", "8", ",", "2", "5", "6" >>
ThreeFieldsLine == << "L", " ", "1", "0", ",", "1", " ", "7" >>

LineTexts ==
    { LoadLine, ModifyLine, StoreLine, InstructionLine, MixedCaseLine,
      PlusSignLine, BlankLine, NoSizeLine, UnknownCodeLine, BadAddressLine,
      BadSizeLine, ThreeFieldsLine }

\* trace_input.lines(): the trace files of at most MaxLines lines
Texts == UNION { [1 .. n -> LineTexts] : n \in 0 .. MaxLines }

\* The geometries the parsed traces are run on.
TraceGeometries ==
    { g \in Geometries : g.set_bits = 1 /\ g.block_bits = 1 /\ g.num_lines >= 1 }

InitMain ==
    /\ build \in Builds
    /\ argv \in TraceGeometries
    /\ status = "reading"
    /\ cache = NoCache
    /\ now = 0
    /\ processed = << >>
    /\ used = << >>
    /\ input \in Texts
    /\ parsed = NotParsed
    /\ probe = NoProbe

\* let traces = valgrind::parse(&file_contents)?;
Parse ==
    /\ status = "reading"
    /\ parsed' = parse(input)
    /\ status' = IF parse(input).ok THEN "start" ELSE "failed"
    /\ UNCHANGED <<build, argv, cache, now, processed, used, input, probe>>

\* one iteration of the loop of operate_cache on the parsed accesses
TraceAccess ==
    /\ parsed # NotParsed
    /\ parsed.ok
    /\ Len(processed) < Len(parsed.traces)
    /\ AccessWithin(parsed.traces[Len(processed) + 1].address, Len(parsed.traces))

\* the parsed accesses are exhausted
TraceFinish ==
    /\ parsed # NotParsed
    /\ parsed.ok
    /\ Len(processed) = Len(parsed.traces)
    /\ Finish

NextMain ==
    \/ Parse
    \/ \E ticks \in ConstructTicks(U8Pow2(argv.set_bits).val * argv.num_lines) :
          Construct(ticks)
    \/ TraceAccess
    \/ TraceFinish

SpecMain == InitMain /\ [][NextMain]_vars

\* main on the two traces of loads of the addresses 0x0, 0x1 and 0x2, on
\* every geometry.
Load0 == << "L", " ", "0", ",", "1" >>
Load1 == << "L", " ", "1", ",", "1" >>
Load2 == << "L", " ", "2", ",", "1" >>

ScenarioA == << Load0, Load1, Load0 >>
ScenarioB == << Load0, Load1, Load0, Load2 >>
ScenarioTexts == {ScenarioA, ScenarioB}

InitScenario ==
    /\ build \in Builds
    /\ argv \in Geometries
    /\ status = "reading"
    /\ cache = NoCache
    /\ now = 0
    /\ processed = << >>
    /\ used = << >>
    /\ input \in ScenarioTexts
    /\ parsed = NotParsed
    /\ probe = NoProbe

SpecScenario == InitScenario /\ [][NextMain]_vars

(***************************************************************************)
(* Cache::place_block called directly, as test::address_decomposition      *)
(* does, on any address and any two bit counts.                            *)
(***************************************************************************)
InitPlace ==
    /\ build \in Builds
    /\ argv = NoArgs
    /\ status = "start"
    /\ cache = NoCache
    /\ now = 0
    /\ processed = << >>
    /\ used = << >>
    /\ input = NoInput
    /\ parsed = NotParsed
    /\ probe \in [ called : {FALSE}, address : ProbeAddresses,
                    set_bits : ProbeBitsValues, block_bits : ProbeBitsValues ]

PlaceBlock ==
    /\ ~probe.called
    /\ LET parts == place_block(probe.address, probe.set_bits, probe.block_bits)
       IN  probe' = [ called |-> TRUE, address |-> probe.address,
                      set_bits |-> probe.set_bits, block_bits |-> probe.block_bits,
                      panicked |-> (build = "debug" /\ parts.overflow),
                      parts |-> parts ]
    /\ UNCHANGED <<build, argv, status, cache, now, processed, used, input, parsed>>

NextPlace == PlaceBlock

SpecPlace == InitPlace /\ [][NextPlace]_vars

(***************************************************************************)
(* Vocabulary of the properties.                                           *)
(***************************************************************************)
Constructed == cache # NoCache

\* The step completes an access; Accessed is its address.
AccessStep == processed' # processed
Accessed == processed'[Len(processed')]

\* Some line of the lines, at whatever index, is valid and holds the tag.
Holds(lines, tag) == \E l \in 1 .. Len(lines) : lines[l].valid /\ lines[l].tag = tag

\* C1: an access is counted as a hit if and only if some line of its set, at
\* any index, is valid and holds its tag; it is counted as a miss if and only
\* if no line of the whole set does.
HitIffSomeLineHoldsTag ==
    [][ AccessStep =>
          LET parts == decompose(cache, Accessed)
              found == Holds(SetOf(cache, parts), parts.tag)
          IN  /\ (cache'.stats.hit = cache.stats.hit + 1) <=> found
              /\ (cache'.stats.miss = cache.stats.miss + 1) <=> ~found ]_vars

\* C2: no set contains two valid lines that hold the same tag.
NoTagTwiceInASet ==
    (Constructed /\ cache.num_lines >= 1) =>
        \A s \in 1 .. Len(cache.sets) :
            \A l, m \in 1 .. Len(cache.sets[s]) :
                ( /\ l # m
                  /\ cache.sets[s][l].valid
                  /\ cache.sets[s][m].valid )
                => cache.sets[s][l].tag # cache.sets[s][m].tag

\* C3: after every prefix of the access stream, hits plus misses is the
\* number of accesses processed so far (lines per set at least 1).
HitsPlusMissesIsProcessed ==
    (Constructed /\ cache.num_lines >= 1) =>
        cache.stats.hit + cache.stats.miss = Len(processed)

\* C3 witness: several accesses processed, hits and misses among them.
HitsAndMissesCounted ==
    /\ Constructed
    /\ cache.num_lines >= 1
    /\ Len(processed) >= 4
    /\ cache.stats.hit >= 2
    /\ cache.stats.miss >= 2

\* The tags the processed accesses have brought to the set of index w.
TagsBroughtTo(w) ==
    { decompose(cache, processed[i]).tag :
        i \in { j \in 1 .. Len(processed) : decompose(cache, processed[j]).set = w } }

IndicesAccessed == { decompose(cache, processed[i]).set : i \in 1 .. Len(processed) }

\* C4: evictions stays 0 for as long as every set has been accessed with at
\* most E distinct tags.
NoEvictionUpToEDistinctTags ==
    (Constructed /\ cache.num_lines >= 1) =>
        ( (\A w \in IndicesAccessed : Cardinality(TagsBroughtTo(w)) <= cache.num_lines)
          => cache.stats.eviction = 0 )

\* C5: in every reachable state of a run, evictions <= misses.
EvictionsAtMostMisses ==
    Constructed => cache.stats.eviction <= cache.stats.miss

\* C5 witness: a run with several evictions.
SeveralEvictions ==
    /\ Constructed
    /\ cache.stats.eviction >= 2
    /\ cache.stats.miss > cache.stats.eviction

\* The valid flags and tags of the lines.
Occupancy(lines) == [ l \in 1 .. Len(lines) |-> <<lines[l].valid, lines[l].tag>> ]

\* C6: each processed access has exactly one of three net effects: a hit
\* (hits + 1 only, no line filled), a miss and a store (misses + 1 only, one
\* invalid line of the set filled with the tag), or a miss and an eviction
\* (misses + 1 and evictions + 1, the set had no invalid line); a step that
\* processes no access leaves the counters alone.  The three effects change
\* the counters differently, so at most one of them holds of a step.
OneNetEffectPerAccess ==
    [][ LET st == cache.stats
            parts == decompose(cache, Accessed)
            w == WordValue(parts.set) + 1
            before == cache.sets[w]
            after == cache'.sets[w]
            HitEffect ==
                /\ cache'.stats = [st EXCEPT !.hit = @ + 1]
                /\ Occupancy(after) = Occupancy(before)
            StoreEffect ==
                /\ cache'.stats = [st EXCEPT !.miss = @ + 1]
                /\ \E l \in 1 .. Len(before) :
                      /\ ~before[l].valid
                      /\ Occupancy(after) =
                            [Occupancy(before) EXCEPT ![l] = <<TRUE, parts.tag>>]
            EvictEffect ==
                /\ cache'.stats = [st EXCEPT !.miss = @ + 1, !.eviction = @ + 1]
                /\ \A l \in 1 .. Len(before) : before[l].valid
                /\ \E l \in 1 .. Len(before) :
                      Occupancy(after) =
                          [Occupancy(before) EXCEPT ![l] = <<TRUE, parts.tag>>]
        IN  IF AccessStep
            THEN HitEffect \/ StoreEffect \/ EvictEffect
            ELSE (Constructed /\ cache' # NoCache) => cache'.stats = cache.stats ]_vars

\* C6 witness: a run in which a hit, a store and an eviction have all happened.
AllThreeEffectsSeen ==
    /\ Constructed
    /\ cache.stats.hit >= 1
    /\ cache.stats.eviction >= 1
    /\ cache.stats.miss > cache.stats.eviction

\* The run of a trace from cache c on by a clock that advances before every
\* reading, last read as t: the same code on the same trace, another clock.
RECURSIVE Replay(_, _, _)
Replay(c, trace, t) ==
    IF trace = << >> THEN c
    ELSE Replay(operate_cache(c, Head(trace), t + 1, build = "debug").cache,
                Tail(trace), t + 1)

ReplayedStatistics ==
    LET n == U8Pow2(argv.set_bits).val * argv.num_lines
        c == CacheNew(argv.set_bits, argv.num_lines, argv.block_bits, 0, 1 .. n).cache
    IN  Replay(c, processed, n).stats

\* C7: replaying the same trace against the same geometry yields the same
\* final statistics, whatever the clock returns on the two runs.
SameStatisticsOnReplay ==
    status = "done" => cache.stats = ReplayedStatistics

ValidGeometry(g) == g.set_bits + g.block_bits <= 64 /\ g.num_lines >= 1

\* C8: constructing the cache with S + B > 64 or E = 0 fails at construction:
\* once Cache::new has been called, main has panicked and holds no cache.
InvalidGeometryRejected ==
    (~ValidGeometry(argv) /\ status # "start") =>
        (status = "panicked" /\ ~Constructed)

\* C9: for every valid geometry Cache::new succeeds and yields exactly 2^S
\* sets of exactly E lines each, all invalid until an access is processed;
\* the counts never change, so that every set index in 0 .. 2^S - 1 addresses
\* an existing set.  (No slice here has 2^8 or more elements.)
ValidGeometryConstructed ==
    (ValidGeometry(argv) /\ status # "start") =>
        /\ Constructed
        /\ argv.set_bits < 8
        /\ Len(cache.sets) = Pow2(argv.set_bits)
        /\ \A s \in 1 .. Len(cache.sets) :
              /\ Len(cache.sets[s]) = argv.num_lines
              /\ processed = << >> =>
                    \A l \in 1 .. Len(cache.sets[s]) : ~cache.sets[s][l].valid
        /\ \A i \in 0 .. Pow2(argv.set_bits) - 1 : i + 1 \in DOMAIN cache.sets

\* C10: place_block fails on no address and no geometry with S + B <= 64:
\* no shift and no subtraction overflows, S = 0, B = 0 and S + B = 64 included.
PlaceBlockTotal ==
    (probe.called /\ probe.set_bits + probe.block_bits <= 64) =>
        (~probe.panicked /\ ~probe.parts.overflow)

\* The word with the bits of w moved up by k places, the bits that leave the
\* 64 dropped: w * 2^k modulo 2^64.
Raised(w, k) == { i + k : i \in { j \in w : j + k < WordBits } }

ProbeValid == probe.called /\ probe.set_bits + probe.block_bits <= 64

\* C11: the round trip: for every address and every valid geometry
\* (tag << (S+B)) | (set_index << B) | block_offset, computed from the result
\* of place_block, is the address.
RoundTrip ==
    ProbeValid =>
        /\ ~probe.panicked
        /\ Raised(probe.parts.tag, probe.set_bits + probe.block_bits)
              \cup Raised(probe.parts.set, probe.block_bits)
              \cup probe.parts.block
           = probe.address

\* C12: place_block returns as tag the bits of the address from S + B up, as
\* set the S bits below them and as block the low B bits.
FieldsOfTheAddress ==
    ProbeValid =>
        LET a == probe.address
            S == probe.set_bits
            B == probe.block_bits
        IN  /\ ~probe.panicked
            /\ probe.parts.tag = { i - (S + B) : i \in { j \in a : j >= S + B } }
            /\ probe.parts.set = { i - B : i \in { j \in a : j >= B /\ j < S + B } }
            /\ probe.parts.block = { i \in a : i < B }

\* The target set of the access of the step, before and after it.
TargetSet == WordValue(decompose(cache, Accessed).set) + 1

\* The line of set s whose last access (fill or hit) is the oldest, the lowest
\* index winning a tie; used records the ordinal of the last access of a line.
LeastRecentlyUsed(s) ==
    CHOOSE l \in DOMAIN used[s] :
        \A m \in DOMAIN used[s] :
            used[s][m] > used[s][l] \/ (used[s][m] = used[s][l] /\ m >= l)

\* C16: when an access whose tag no line of the target set holds finds every
\* line of the set valid, the line replaced is the least recently used one
\* (oldest last fill or hit, lowest index on a tie): that line then holds the
\* tag of the access, and evictions increases by 1.
EvictsLeastRecentlyUsed ==
    [][ ( /\ AccessStep
          /\ cache.num_lines >= 1
          /\ \A l \in DOMAIN cache.sets[TargetSet] : cache.sets[TargetSet][l].valid
          /\ ~Holds(cache.sets[TargetSet], decompose(cache, Accessed).tag) )
        => LET l == LeastRecentlyUsed(TargetSet)
           IN  /\ used'[TargetSet][l] = Len(processed')
               /\ cache'.sets[TargetSet][l].valid
               /\ cache'.sets[TargetSet][l].tag = decompose(cache, Accessed).tag
               /\ cache'.stats.eviction = cache.stats.eviction + 1 ]_vars

\* C17: when an access whose tag no line of the target set holds finds an
\* invalid line in the set, an invalid line becomes valid with the tag of the
\* access and with a last-access time that is the current time, at least as
\* recent as every reading of the clock taken before; no eviction is counted.
StoreStampsTheLine ==
    [][ ( /\ AccessStep
          /\ ~Holds(cache.sets[TargetSet], decompose(cache, Accessed).tag)
          /\ \E l \in DOMAIN cache.sets[TargetSet] : ~cache.sets[TargetSet][l].valid )
        => /\ \E l \in DOMAIN cache.sets[TargetSet] :
                 /\ ~cache.sets[TargetSet][l].valid
                 /\ cache'.sets[TargetSet][l].valid
                 /\ cache'.sets[TargetSet][l].tag = decompose(cache, Accessed).tag
                 /\ cache'.sets[TargetSet][l].access_time >= now
           /\ cache'.stats.eviction = cache.stats.eviction ]_vars

\* The valid flag, tag and timestamp of a line all at once: the line itself.
LinesChanged(before, after) == { l \in DOMAIN before : after[l] # before[l] }

\* C18: processing one access changes lines only in the set selected by the
\* set-index field of the access: every line of every other set keeps its
\* valid flag, tag and timestamp, and at most one line of the target set
\* changes.
OnlyOneLineOfTheTargetSet ==
    [][ AccessStep =>
          LET w == TargetSet
          IN  /\ DOMAIN cache'.sets = DOMAIN cache.sets
              /\ \A s \in DOMAIN cache.sets :
                    /\ DOMAIN cache'.sets[s] = DOMAIN cache.sets[s]
                    /\ s # w => cache'.sets[s] = cache.sets[s]
              /\ Cardinality(LinesChanged(cache.sets[w], cache'.sets[w])) <= 1 ]_vars

\* C18 witness: both sets of a cache of two sets have been accessed, and one
\* of them has been through a store, a hit and an eviction.
BothSetsAccessed ==
    /\ Constructed
    /\ Len(cache.sets) = 2
    /\ cache.num_lines >= 1
    /\ \A s \in DOMAIN cache.sets : cache.sets[s][1].valid
    /\ cache.stats.hit >= 1
    /\ cache.stats.eviction >= 1

\* C19: an access that immediately follows an access with the same set index
\* and the same tag is a hit, for every E >= 1 and whatever the cache held
\* before the two.
RepeatedAccessHits ==
    [][ ( /\ AccessStep
          /\ cache.num_lines >= 1
          /\ processed # << >>
          /\ decompose(cache, Accessed).set =
                decompose(cache, processed[Len(processed)]).set
          /\ decompose(cache, Accessed).tag =
                decompose(cache, processed[Len(processed)]).tag )
        => /\ cache'.stats.hit = cache.stats.hit + 1
           /\ cache'.stats.miss = cache.stats.miss
           /\ cache'.stats.eviction = cache.stats.eviction ]_vars

\* C20: with E >= 1, after every processed access the target set contains a
\* valid line holding the tag of the access; a line that is valid stays valid;
\* and the valid lines of every set occupy a prefix of its line indices.
TagPresentAndValidPrefix ==
    [][ (cache' # cache /\ cache' # NoCache /\ cache'.num_lines >= 1) =>
          /\ AccessStep =>
                Holds(cache'.sets[TargetSet], decompose(cache, Accessed).tag)
          /\ Constructed =>
                \A s \in DOMAIN cache.sets : \A l \in DOMAIN cache.sets[s] :
                    cache.sets[s][l].valid => cache'.sets[s][l].valid
          /\ \A s \in DOMAIN cache'.sets : \A l \in DOMAIN cache'.sets[s] :
                cache'.sets[s][l].valid =>
                    \A m \in 1 .. l - 1 : cache'.sets[s][m].valid ]_vars

\* C20 witness: one set is full and has been through an eviction, another is
\* filled in part.
FullSetAndPartSet ==
    /\ Constructed
    /\ cache.num_lines = 2
    /\ cache.stats.eviction >= 1
    /\ \E s \in DOMAIN cache.sets :
          cache.sets[s][1].valid /\ ~cache.sets[s][2].valid

\* The tags held by the valid lines of the lines.
TagsHeld(lines) == { lines[l].tag : l \in { m \in DOMAIN lines : lines[m].valid } }

\* C13: scenario B.  With S = 0, E = 2, B = 0 and the trace Load 0x0,
\* Load 0x1, Load 0x0, Load 0x2 the run fails nowhere, the third access is a
\* hit, the fourth evicts the line holding tag 0x1 and not the one holding
\* tag 0x0, and the final statistics are hits = 1, misses = 3, evictions = 1.
ScenarioBStatistics ==
    (input = ScenarioB /\ argv = [set_bits |-> 0, num_lines |-> 2, block_bits |-> 0])
    => /\ status \notin {"failed", "panicked"}
       /\ Len(processed) = 2 => cache.stats = [hit |-> 0, miss |-> 2, eviction |-> 0]
       /\ Len(processed) = 3 => cache.stats = [hit |-> 1, miss |-> 2, eviction |-> 0]
       /\ Len(processed) = 4 =>
             /\ cache.stats = [hit |-> 1, miss |-> 3, eviction |-> 1]
             /\ TagsHeld(cache.sets[1]) = { {}, {1} }

\* What each line of LineTexts says, read by hand: its operation code, its
\* address (the set of the bits of the hexadecimal number) and its size; the
\* code is "bad" for a line that is no record of the format.  An address or
\* a size is a number in the syntax of Rust's integers, an optional + sign
\* and digits.
Record(code, address, size) == [code |-> code, address |-> address, size |-> size]
Malformed == [code |-> "bad"]

Meaning(line) ==
    CASE line = LoadLine -> Record("L", {4}, 1)
      [] line = ModifyLine -> Record("M", {1, 4}, 1)
      [] line = StoreLine -> Record("S", {3, 4}, 4)
      [] line = InstructionLine -> Record("I", {4}, 8)
      [] line = MixedCaseLine -> Record("L", 0 .. 10, 255)
      [] line = PlusSignLine -> Record("S", {2, 3}, 8)
      [] OTHER -> Malformed

WellFormed(lines) == \A i \in DOMAIN lines : Meaning(lines[i]) # Malformed

\* The accesses a record stands for.
Events(r) ==
    CASE r.code = "L" -> << MemoryAccess("Load", r.address, r.size) >>
      [] r.code = "S" -> << MemoryAccess("Store", r.address, r.size) >>
      [] r.code = "M" -> << MemoryAccess("Load", r.address, r.size),
                            MemoryAccess("Store", r.address, r.size) >>
      [] r.code = "I" -> << >>

RECURSIVE EventsOf(_)
EventsOf(lines) ==
    IF lines = << >> THEN << >>
    ELSE Events(Meaning(Head(lines))) \o EventsOf(Tail(lines))

\* C14: parse turns a trace into its accesses in input order: a Load or a
\* Store line yields one access of that operation, a Modify line a Load
\* immediately followed by a Store of the same address and size, an
\* Instruction line nothing; the output holds no Modify and no Instruction.
ParseExpandsTheTrace ==
    (status # "reading" /\ WellFormed(input)) =>
        /\ parsed.ok
        /\ parsed.traces = EventsOf(input)
        /\ \A i \in DOMAIN parsed.traces :
              parsed.traces[i].operation \in {"Load", "Store"}

\* C14 witness: a parsed trace of an Instruction, a Modify and a Store line.
ModifyExpanded ==
    /\ status # "reading"
    /\ input = << InstructionLine, ModifyLine, StoreLine >>
    /\ Len(parsed.traces) = 3

\* C15: if any line of the trace is malformed, parse returns an error and no
\* access list, and main stops there: no cache is constructed and no access
\* is simulated, neither the accesses before the malformed line nor the ones
\* after it.
MalformedTraceAborts ==
    (status # "reading" /\ ~WellFormed(input)) =>
        /\ ~parsed.ok
        /\ "traces" \notin DOMAIN parsed
        /\ status = "failed"
        /\ ~Constructed
        /\ processed = << >>

\* C15 witness: the run has failed on a trace whose first line is a Load and
\* whose second line has an unknown operation code.
FailedAfterAGoodLine ==
    /\ status = "failed"
    /\ Len(input) = 3
    /\ input[1] = LoadLine
    /\ input[2] = UnknownCodeLine
    /\ input[3] = StoreLine

==============================================================================
